---------------------------- MODULE Spec2Model ----------------------------
(***************************************************************************)
(* SortBot, src/src/train.py: the loader, the dataset generator, the       *)
(* evaluator, the trainer and the batch-size driver, as one sequential     *)
(* state machine.  The deep-learning framework is the environment: what    *)
(* its calls return (deserialization outcome, per-epoch validation loss,   *)
(* evaluation accuracy) is drawn from bounded sets, and what its callbacks *)
(* do (EarlyStopping, ModelCheckpoint, History) is modelled step by step   *)
(* from the way train.py configures them.                                  *)
(*                                                                         *)
(* Parameters are modelled by provenance: a weights value says where the   *)
(* parameters came from (the import-time initialisation, the file stored   *)
(* at model_path, or epoch e of trainer run r).  Accuracies are integers   *)
(* in abstract units and the running statistic is an exact fraction.       *)
(***************************************************************************)
EXTENDS Integers, Sequences, FiniteSets, TLC

\* ------------------------------------------------------------------ bounds
\* The largest epoch limit a stand-alone trainer call is given.
MaxEpochs == 5
\* Validation losses are drawn from 0..MaxLoss.
MaxLoss == 2
\* Evaluation accuracies are drawn from 0..MaxAcc (abstract units).
MaxAcc == 2
\* The largest repeat count a stand-alone evaluator call is given.
MaxTimes == 3

\* ------------------------------------------------------- program constants
StartBatch == 32
DriverEpochs == 100
Patience == 3
DefaultTimes == 10
TestBatchSize == 256
ImageSize == 256
OutputUnits == 8

\* "sortbot_alpha_new.h5", the path the driver passes, as characters.
ModelPath ==
  << "s","o","r","t","b","o","t","_","a","l","p","h","a","_","n","e","w",".","h","5" >>

\* ------------------------------------------------------------ pure helpers
RECURSIVE StrReplace(_, _, _)
\* Python's str.replace(old, new): every non-overlapping occurrence, left to right.
StrReplace(s, old, new) ==
  IF Len(s) < Len(old) THEN s
  ELSE IF SubSeq(s, 1, Len(old)) = old
       THEN new \o StrReplace(SubSeq(s, Len(old) + 1, Len(s)), old, new)
       ELSE <<Head(s)>> \o StrReplace(Tail(s), old, new)

\* model_path.replace("h5", "keras")
SavePath(mp) == StrReplace(mp, <<"h","5">>, <<"k","e","r","a","s">>)

RECURSIVE Digits(_)
\* The decimal digits of a natural number, most significant first.
Digits(n) == IF n < 10 THEN <<n>> ELSE Digits(n \div 10) \o <<n % 10>>

RECURSIVE ZeroPad(_, _)
ZeroPad(ds, width) == IF Len(ds) >= width THEN ds ELSE ZeroPad(<<0>> \o ds, width)

\* Slip: a template without the epoch field, so every epoch writes one path.
CheckpointPathFixed(n) == <<"./training/cp-">> \o <<".weights.h5">>

\* "./training/cp-{epoch:04d}.weights.h5".format(epoch=n)
CheckpointPath(n) == <<"./training/cp-">> \o ZeroPad(Digits(n), 4) \o <<".weights.h5">>

\* Slip: the two branches of generate_dataset exchanged.
DataDirSwapped(training) == IF training THEN "./dataset-resized/val" ELSE "./dataset-resized/"

\* generate_dataset: the directory the flag selects.
DataDir(training) == IF training THEN "./dataset-resized/" ELSE "./dataset-resized/val"

GenerateDataset(bs, training) ==
  [data_dir |-> DataDir(training), image_size |-> <<ImageSize, ImageSize>>, batch_size |-> bs]

NoDataset == [data_dir |-> "", image_size |-> <<0, 0>>, batch_size |-> 0]

\* ------------------------------------------------------------------ models
\* new_model's layers, in order (units: filters of a convolution, width of a dense layer).
NewModelLayers ==
  << [kind |-> "Conv2D", units |-> 32], [kind |-> "BatchNormalization", units |-> 0],
     [kind |-> "MaxPooling2D", units |-> 0], [kind |-> "Dropout", units |-> 0],
     [kind |-> "Conv2D", units |-> 64], [kind |-> "BatchNormalization", units |-> 0],
     [kind |-> "MaxPooling2D", units |-> 0], [kind |-> "Dropout", units |-> 0],
     [kind |-> "Conv2D", units |-> 128], [kind |-> "BatchNormalization", units |-> 0],
     [kind |-> "MaxPooling2D", units |-> 0], [kind |-> "Dropout", units |-> 0],
     [kind |-> "Conv2D", units |-> 256], [kind |-> "BatchNormalization", units |-> 0],
     [kind |-> "MaxPooling2D", units |-> 0], [kind |-> "Dropout", units |-> 0],
     [kind |-> "Flatten", units |-> 0],
     [kind |-> "Dense", units |-> 512], [kind |-> "BatchNormalization", units |-> 0],
     [kind |-> "Dropout", units |-> 0],
     [kind |-> "Dense", units |-> OutputUnits] >>

\* The layers of a model somebody stored at model_path earlier: not known to
\* train.py; a two-class head stands for "any architecture".
StoredLayers == << [kind |-> "Flatten", units |-> 0], [kind |-> "Dense", units |-> 2] >>

OutputWidth(layers) == layers[Len(layers)].units

Weights(src, r, e) == [src |-> src, run |-> r, epoch |-> e]
InitWeights == Weights("init", 0, 0)
DiskWeights == Weights("disk", 0, 0)
NoWeights == Weights("none", 0, 0)

NullObj == [layers |-> <<>>, w |-> NoWeights, compiled |-> FALSE]
ObjIds == {"new_model", "loaded_tr", "loaded_te"}

\* What a path of the filesystem holds.
NoFile == [kind |-> "missing", layers |-> <<>>, w |-> NoWeights]
BadFile == [kind |-> "malformed", layers |-> <<>>, w |-> NoWeights]
ModelFile(layers, w) == [kind |-> "model", layers |-> layers, w |-> w]

FsPaths == {ModelPath, SavePath(ModelPath)}

\* ------------------------------------------------------------------ loader
\* tf.keras.models.load_model on what the path holds: the model, or the
\* exception the framework raises.  For an .h5 path the file is opened with
\* h5py, which raises FileNotFoundError when there is none; a file that holds
\* no loadable model (no model config, a bad config) ends in ValueError.
FrameworkLoad(content) ==
  CASE content.kind = "model" -> [exc |-> "None", layers |-> content.layers, w |-> content.w]
    [] content.kind = "missing" -> [exc |-> "FileNotFoundError", layers |-> <<>>, w |-> NoWeights]
    [] OTHER -> [exc |-> "ValueError", layers |-> <<>>, w |-> NoWeights]

\* Slip: the filter is the second operand, as `except ValueError` would be.
PyOrSecond(a, b) == b

\* Python's `a or b` on two exception classes: a class is truthy, so the value is a.
PyOr(a, b) == IF a /= "None" THEN a ELSE b

\* The expression after `except`.
ExceptFilter == PyOr("FileNotFoundError", "ValueError")

Catches(exc) == exc = ExceptFilter

\* Variant: the fallback builds a new object with initial weights on every call.
LoadModelFresh(content) ==
  LET r == FrameworkLoad(content) IN
  IF r.exc = "None"
  THEN [raised |-> "None", ref |-> "loaded", layers |-> r.layers, w |-> r.w, logged |-> <<>>]
  ELSE IF Catches(r.exc)
       THEN [raised |-> "None", ref |-> "loaded", layers |-> NewModelLayers,
             w |-> InitWeights, logged |-> <<r.exc>>]
       ELSE [raised |-> r.exc, ref |-> "none", layers |-> <<>>, w |-> NoWeights, logged |-> <<>>]

\* load_model(model_path): the reference it returns ("loaded" for a newly
\* deserialized object, "new_model" for the module-level object), what it
\* logs with logging.error, and the exception that leaves it, if any.
\* model.summary() only prints and has no part here.
LoadModel(content) ==
  LET r == FrameworkLoad(content) IN
  IF r.exc = "None"
  THEN [raised |-> "None", ref |-> "loaded", layers |-> r.layers, w |-> r.w, logged |-> <<>>]
  ELSE IF Catches(r.exc)
       THEN [raised |-> "None", ref |-> "new_model", layers |-> <<>>, w |-> NoWeights,
             logged |-> <<r.exc>>]
       ELSE [raised |-> r.exc, ref |-> "none", layers |-> <<>>, w |-> NoWeights, logged |-> <<>>]

\* ---------------------------------------------------------- early stopping
EsInit ==
  [wait |-> 0, has_best |-> FALSE, best |-> 0, best_weights |-> NoWeights,
   best_epoch |-> 0, stopped_epoch |-> 0]

\* Slip: a tie with the best loss counts as an improvement.
IsImprovementOrEqual(current, s) == (~s.has_best) \/ current <= s.best

\* monitor='val_loss', mode='min', min_delta 0: strictly below the best so far.
IsImprovement(current, s) == (~s.has_best) \/ current < s.best

\* EarlyStopping.on_epoch_end(epoch, logs) with restore_best_weights=True;
\* epoch is 0-based, weights are the model's weights at the end of the epoch.
EarlyStoppingOnEpochEnd(s, epoch, current, weights) ==
  LET s1 == IF s.best_weights = NoWeights
            THEN [s EXCEPT !.best_weights = weights, !.best_epoch = epoch]
            ELSE s
      s2 == [s1 EXCEPT !.wait = @ + 1]
  IN IF IsImprovement(current, s2)
     THEN [state |-> [s2 EXCEPT !.best = current, !.has_best = TRUE, !.best_epoch = epoch,
                                !.best_weights = weights, !.wait = 0],
           stop |-> FALSE]
     ELSE IF s2.wait >= Patience /\ epoch > 0
          THEN [state |-> [s2 EXCEPT !.stopped_epoch = epoch], stop |-> TRUE]
          ELSE [state |-> s2, stop |-> FALSE]

\* --------------------------------------------------------------- evaluator
\* Slip: avg_acc + test_acc / 2, the division binding to test_acc alone.
BlendPrecedence(avg, a) == [num |-> 2 * avg.num + a * avg.den, den |-> 2 * avg.den]

\* avg_acc = (avg_acc + test_acc) / 2 on an exact fraction num/den.
Blend(avg, a) == [num |-> avg.num + a * avg.den, den |-> 2 * avg.den]

ZeroAvg == [num |-> 0, den |-> 1]

NoHistory == [id |-> 0, val_loss |-> <<>>]

\* ------------------------------------------------------------------- state
VARIABLES
  pc,                 \* the statement the process is at
  entry,              \* the outermost call: "main", "train" or "test"
  raised,             \* the exception that ended the process, or "None"
  lossDomain,         \* the validation losses the framework can report
  accDomain,          \* the accuracies model.evaluate can report
  fs,                 \* model files: path -> content
  ckptFiles,          \* the paths present in ./training
  errors,             \* the records written with logging.error
  heap,               \* model objects: id -> layers, weights, compiled
  batch,              \* driver: batch
  history,            \* driver: history
  trainCalls,         \* the batch size of every train_model call so far
  plotCalls,          \* the history id of every plot_history call so far
  model_path, epochs, batch_size, test,          \* train_model's arguments
  model, dataset, validation_dataset,            \* train_model's locals
  train_history,      \* the History the fit loop fills: val_loss per epoch
  es,                 \* the EarlyStopping callback's fields
  stop_training,      \* model.stop_training
  events,             \* what the current train_model call has done so far
  ckptAtEntry,        \* the paths ./training held when that call began
  times,              \* test_model's argument
  tmodel, test_dataset, avg_acc, iter,           \* test_model's locals
  accs                \* the accuracies the current test_model call has seen

envVars == <<lossDomain, accDomain>>
diskVars == <<fs, ckptFiles>>
mainVars == <<batch, history, plotCalls>>
argVars == <<model_path, epochs, batch_size, test, ckptAtEntry>>
fitVars == <<train_history, es, stop_training>>
testVars == <<times, tmodel, test_dataset, avg_acc, iter, accs>>

vars == <<pc, entry, raised, lossDomain, accDomain, fs, ckptFiles, errors, heap,
          batch, history, trainCalls, plotCalls, model_path, epochs, batch_size, test,
          model, dataset, validation_dataset, train_history, es, stop_training, events,
          ckptAtEntry, times, tmodel, test_dataset, avg_acc, iter, accs>>

\* The run number of the current train_model call.
Run == Len(trainCalls)

\* -------------------------------------------------------------------- inits
\* A checkpoint an earlier process left in ./training.
StaleCheckpoint == CheckpointPath(MaxEpochs + 2)

InitCommon ==
  /\ raised = "None"
  /\ \E f \in {NoFile, BadFile, ModelFile(StoredLayers, DiskWeights)} :
       fs = [p \in FsPaths |-> IF p = ModelPath THEN f ELSE NoFile]
  /\ ckptFiles \in {{}, {StaleCheckpoint}}
  /\ errors = <<>>
  /\ heap = [o \in ObjIds |->
               IF o = "new_model"
               THEN [layers |-> NewModelLayers, w |-> InitWeights, compiled |-> FALSE]
               ELSE NullObj]
  /\ batch = StartBatch
  /\ history = NoHistory
  /\ trainCalls = <<>>
  /\ plotCalls = <<>>
  /\ model_path = <<>> /\ epochs = 0 /\ batch_size = 0 /\ test = FALSE
  /\ model = "none" /\ dataset = NoDataset /\ validation_dataset = NoDataset
  /\ train_history = <<>> /\ es = EsInit /\ stop_training = FALSE
  /\ events = <<>>
  /\ ckptAtEntry = {}
  /\ times = 0 /\ tmodel = "none" /\ test_dataset = NoDataset
  /\ avg_acc = ZeroAvg /\ iter = 0 /\ accs = <<>>

\* The script run as the main program.  Every fit of the sweep draws its
\* losses from two values, so a run is stopped by EarlyStopping long before
\* the 100 epochs the driver allows; evaluating one model on one dataset
\* reports one accuracy, whichever it is.
Init ==
  /\ InitCommon
  /\ pc = "main_loop" /\ entry = "main"
  /\ lossDomain = {0, MaxLoss}
  /\ \E a \in 0..MaxAcc : accDomain = {a}

\* One call of train_model from a fresh import, with any epoch limit up to
\* MaxEpochs and losses from the whole of 0..MaxLoss.
InitTrain ==
  /\ InitCommon
  /\ pc = "idle" /\ entry = "train"
  /\ lossDomain = 0..MaxLoss
  /\ \E a \in 0..MaxAcc : accDomain = {a}

\* One call of test_model from a fresh import; the evaluations may report
\* different accuracies from 0..MaxAcc.
InitTest ==
  /\ InitCommon
  /\ pc = "idle" /\ entry = "test"
  /\ lossDomain = 0..MaxLoss
  /\ accDomain = 0..MaxAcc

\* ------------------------------------------------------------- test_model
EnterTest(mp, t) ==
  /\ times' = t
  /\ tmodel' = "none"
  /\ test_dataset' = NoDataset
  /\ avg_acc' = ZeroAvg
  /\ iter' = 0
  /\ accs' = <<>>

\* A stand-alone call test_model(model_path, times).
CallTest ==
  /\ pc = "idle" /\ entry = "test"
  /\ \E t \in 0..MaxTimes : EnterTest(ModelPath, t)
  /\ model_path' = ModelPath
  /\ pc' = "te_load"
  /\ UNCHANGED <<entry, raised, envVars, diskVars, errors, heap, mainVars, trainCalls,
                 epochs, batch_size, test, ckptAtEntry, model, dataset, validation_dataset,
                 fitVars, events>>

\* line 98: model = load_model(model_path)
TestLoad ==
  /\ pc = "te_load"
  /\ LET r == LoadModel(fs[model_path]) IN
       IF r.raised /= "None"
       THEN /\ pc' = "crashed"
            /\ raised' = r.raised
            /\ UNCHANGED <<errors, heap, tmodel>>
       ELSE /\ pc' = "te_compile"
            /\ errors' = errors \o r.logged
            /\ tmodel' = IF r.ref = "loaded" THEN "loaded_te" ELSE r.ref
            /\ heap' = IF r.ref = "loaded"
                       THEN [heap EXCEPT !["loaded_te"] =
                               [layers |-> r.layers, w |-> r.w, compiled |-> FALSE]]
                       ELSE heap
            /\ UNCHANGED raised
  /\ UNCHANGED <<entry, envVars, diskVars, mainVars, trainCalls, argVars, model, dataset,
                 validation_dataset, fitVars, events, times, test_dataset, avg_acc, iter,
                 accs>>

\* lines 99-102: model.compile(...)
TestCompile ==
  /\ pc = "te_compile"
  /\ heap' = [heap EXCEPT ![tmodel].compiled = TRUE]
  /\ pc' = "te_data"
  /\ UNCHANGED <<entry, raised, envVars, diskVars, errors, mainVars, trainCalls, argVars,
                 model, dataset, validation_dataset, fitVars, events, testVars>>

\* line 104: test_dataset = generate_dataset(batch_size=256, training=False)
TestData ==
  /\ pc = "te_data"
  /\ test_dataset' = GenerateDataset(TestBatchSize, FALSE)
  /\ pc' = "te_eval"
  /\ UNCHANGED <<entry, raised, envVars, diskVars, errors, heap, mainVars, trainCalls,
                 argVars, model, dataset, validation_dataset, fitVars, events, times,
                 tmodel, avg_acc, iter, accs>>

\* lines 106-108: one pass of the loop body
TestEvaluate ==
  /\ pc = "te_eval"
  /\ iter < times
  /\ \E a \in accDomain :
       /\ avg_acc' = Blend(avg_acc, a)
       /\ accs' = Append(accs, a)
  /\ iter' = iter + 1
  /\ UNCHANGED <<pc, entry, raised, envVars, diskVars, errors, heap, mainVars, trainCalls,
                 argVars, model, dataset, validation_dataset, fitVars, events, times,
                 tmodel, test_dataset>>

\* lines 110-112: the loop is over; return avg_acc
TestReturn ==
  /\ pc = "te_eval"
  /\ iter >= times
  /\ pc' = IF entry = "test" THEN "done" ELSE "tr_save"
  /\ events' = IF entry = "test" THEN events ELSE Append(events, "evaluated")
  /\ UNCHANGED <<entry, raised, envVars, diskVars, errors, heap, mainVars, trainCalls,
                 argVars, model, dataset, validation_dataset, fitVars, testVars>>

\* ------------------------------------------------------------ train_model
EnterTrain(mp, ep, bs, t) ==
  /\ model_path' = mp
  /\ epochs' = ep
  /\ batch_size' = bs
  /\ test' = t
  /\ model' = "none"
  /\ dataset' = NoDataset
  /\ validation_dataset' = NoDataset
  /\ train_history' = <<>>
  /\ es' = EsInit
  /\ stop_training' = FALSE
  /\ events' = <<>>
  /\ ckptAtEntry' = ckptFiles
  /\ trainCalls' = Append(trainCalls, bs)
  /\ pc' = "tr_load"

\* The batch sizes a stand-alone trainer call is given.
BatchSizes == {2, StartBatch}

\* A stand-alone call train_model(model_path, epochs, batch_size, test).
CallTrain ==
  /\ pc = "idle" /\ entry = "train"
  /\ \E ep \in 0..MaxEpochs, bs \in BatchSizes, t \in BOOLEAN :
       EnterTrain(ModelPath, ep, bs, t)
  /\ UNCHANGED <<entry, raised, envVars, diskVars, errors, heap, mainVars, testVars>>

\* line 118: model = load_model(model_path)
TrainLoad ==
  /\ pc = "tr_load"
  /\ LET r == LoadModel(fs[model_path]) IN
       IF r.raised /= "None"
       THEN /\ pc' = "crashed"
            /\ raised' = r.raised
            /\ UNCHANGED <<errors, heap, model, events>>
       ELSE /\ pc' = "tr_compile"
            /\ errors' = errors \o r.logged
            /\ model' = IF r.ref = "loaded" THEN "loaded_tr" ELSE r.ref
            /\ heap' = IF r.ref = "loaded"
                       THEN [heap EXCEPT !["loaded_tr"] =
                               [layers |-> r.layers, w |-> r.w, compiled |-> FALSE]]
                       ELSE heap
            /\ events' = Append(events, "loaded")
            /\ UNCHANGED raised
  /\ UNCHANGED <<entry, envVars, diskVars, mainVars, trainCalls, argVars, dataset,
                 validation_dataset, fitVars, testVars>>

\* lines 120-123: model.compile(...)
TrainCompile ==
  /\ pc = "tr_compile"
  /\ heap' = [heap EXCEPT ![model].compiled = TRUE]
  /\ events' = Append(events, "compiled")
  /\ pc' = "tr_data"
  /\ UNCHANGED <<entry, raised, envVars, diskVars, errors, mainVars, trainCalls, argVars,
                 model, dataset, validation_dataset, fitVars, testVars>>

\* lines 125-127: both datasets from generate_dataset(batch_size=batch_size)
TrainData ==
  /\ pc = "tr_data"
  /\ dataset' = GenerateDataset(batch_size, TRUE)
  /\ validation_dataset' = GenerateDataset(batch_size, TRUE)
  /\ events' = Append(events, "datasets")
  /\ pc' = "tr_ckpt0"
  /\ UNCHANGED <<entry, raised, envVars, diskVars, errors, heap, mainVars, trainCalls,
                 argVars, model, fitVars, testVars>>

\* lines 129-139: the callbacks are built, then
\* model.save_weights(checkpoint_path.format(epoch=0))
TrainCheckpoint0 ==
  /\ pc = "tr_ckpt0"
  /\ ckptFiles' = ckptFiles \cup {CheckpointPath(0)}
  /\ events' = Append(events, "checkpoint0")
  /\ pc' = "tr_fit_begin"
  /\ UNCHANGED <<entry, raised, envVars, fs, errors, heap, mainVars, trainCalls, argVars,
                 model, dataset, validation_dataset, fitVars, testVars>>

\* line 142, entering model.fit: on_train_begin of the callbacks
FitBegin ==
  /\ pc = "tr_fit_begin"
  /\ es' = EsInit
  /\ stop_training' = FALSE
  /\ train_history' = <<>>
  /\ events' = Append(events, "fit_begin")
  /\ pc' = "tr_fit"
  /\ UNCHANGED <<entry, raised, envVars, diskVars, errors, heap, mainVars, trainCalls,
                 argVars, model, dataset, validation_dataset, testVars>>

\* lines 142-147, one epoch of model.fit: the training pass changes the
\* weights, validation reports val_loss, then on_epoch_end of early_stopping,
\* cp_callback and the History, in that order.
FitEpoch ==
  /\ pc = "tr_fit"
  /\ Len(train_history) < epochs
  /\ ~stop_training
  /\ \E v \in lossDomain :
       LET e == Len(train_history)
           w == Weights("fit", Run, e + 1)
           r == EarlyStoppingOnEpochEnd(es, e, v, w)
       IN /\ heap' = [heap EXCEPT ![model].w = w]
          /\ es' = r.state
          /\ stop_training' = r.stop
          /\ ckptFiles' = ckptFiles \cup {CheckpointPath(e + 1)}
          /\ train_history' = Append(train_history, v)
  /\ events' = Append(events, "epoch")
  /\ UNCHANGED <<pc, entry, raised, envVars, fs, errors, mainVars, trainCalls, argVars,
                 model, dataset, validation_dataset, testVars>>

\* line 142, leaving model.fit: the epoch limit is reached or stop_training
\* is set; EarlyStopping.on_train_end restores the best weights it holds
\* (restore_best_weights=True), and fit returns the History.
FitEnd ==
  /\ pc = "tr_fit"
  /\ (Len(train_history) >= epochs \/ stop_training)
  /\ heap' = IF es.best_weights /= NoWeights
             THEN [heap EXCEPT ![model].w = es.best_weights]
             ELSE heap
  /\ events' = Append(events, "fit_end")
  /\ pc' = "tr_test"
  /\ UNCHANGED <<entry, raised, envVars, diskVars, errors, mainVars, trainCalls, argVars,
                 model, dataset, validation_dataset, fitVars, testVars>>

\* Slip: the evaluator is called whatever the flag says.
TrainCallTestUnguarded ==
  /\ pc = "tr_test"
  /\ EnterTest(model_path, DefaultTimes)
  /\ events' = Append(events, "evaluating")
  /\ pc' = "te_load"
  /\ UNCHANGED <<entry, raised, envVars, diskVars, errors, heap, mainVars, trainCalls,
                 argVars, model, dataset, validation_dataset, fitVars>>

\* lines 149-150: test is true, test_model(model_path) with the default times
TrainCallTest ==
  /\ pc = "tr_test"
  /\ test
  /\ EnterTest(model_path, DefaultTimes)
  /\ events' = Append(events, "evaluating")
  /\ pc' = "te_load"
  /\ UNCHANGED <<entry, raised, envVars, diskVars, errors, heap, mainVars, trainCalls,
                 argVars, model, dataset, validation_dataset, fitVars>>

\* line 149: test is false
TrainSkipTest ==
  /\ pc = "tr_test"
  /\ ~test
  /\ pc' = "tr_save"
  /\ UNCHANGED <<entry, raised, envVars, diskVars, errors, heap, mainVars, trainCalls,
                 argVars, model, dataset, validation_dataset, fitVars, events, testVars>>

\* lines 153-154: model.save(model_path.replace("h5", "keras"))
TrainSave ==
  /\ pc = "tr_save"
  /\ fs' = [fs EXCEPT ![SavePath(model_path)] = ModelFile(heap[model].layers, heap[model].w)]
  /\ events' = Append(events, "saved")
  /\ pc' = "tr_return"
  /\ UNCHANGED <<entry, raised, envVars, ckptFiles, errors, heap, mainVars, trainCalls,
                 argVars, model, dataset, validation_dataset, fitVars, testVars>>

\* line 156: return train_history (line 188 binds it to the driver's history)
TrainReturn ==
  /\ pc = "tr_return"
  /\ history' = [id |-> Run, val_loss |-> train_history]
  /\ events' = Append(events, "returned")
  /\ pc' = IF entry = "main" THEN "main_plot" ELSE "done"
  /\ UNCHANGED <<entry, raised, envVars, diskVars, errors, heap, batch, plotCalls,
                 trainCalls, argVars, model, dataset, validation_dataset, fitVars,
                 testVars>>

NextTrain ==
  \/ CallTrain \/ TrainLoad \/ TrainCompile \/ TrainData \/ TrainCheckpoint0
  \/ FitBegin \/ FitEpoch \/ FitEnd \/ TrainCallTest \/ TrainSkipTest
  \/ TestLoad \/ TestCompile \/ TestData \/ TestEvaluate \/ TestReturn
  \/ TrainSave \/ TrainReturn

SpecTrain == InitTrain /\ [][NextTrain]_vars

\* ------------------------------------------------------------------ driver
\* lines 187-188: batch > 1, so train_model("sortbot_alpha_new.h5", epochs=100,
\* batch_size=batch) is called (test keeps its default, True)
MainCall ==
  /\ pc = "main_loop"
  /\ batch > 1
  /\ EnterTrain(ModelPath, DriverEpochs, batch, TRUE)
  /\ UNCHANGED <<entry, raised, envVars, diskVars, errors, heap, mainVars, testVars>>

\* lines 189-191: plot_history(history); batch //= 2
MainPlot ==
  /\ pc = "main_plot"
  /\ plotCalls' = Append(plotCalls, history.id)
  /\ batch' = batch \div 2
  /\ pc' = "main_loop"
  /\ UNCHANGED <<entry, raised, envVars, diskVars, errors, heap, history, trainCalls,
                 argVars, model, dataset, validation_dataset, fitVars, events, testVars>>

\* line 187: batch > 1 is false, the script ends
MainExit ==
  /\ pc = "main_loop"
  /\ batch <= 1
  /\ pc' = "done"
  /\ UNCHANGED <<entry, raised, envVars, diskVars, errors, heap, mainVars, trainCalls,
                 argVars, model, dataset, validation_dataset, fitVars, events, testVars>>

Next ==
  \/ MainCall \/ MainPlot \/ MainExit
  \/ TrainLoad \/ TrainCompile \/ TrainData \/ TrainCheckpoint0
  \/ FitBegin \/ FitEpoch \/ FitEnd \/ TrainCallTest
  \/ TestLoad \/ TestCompile \/ TestData \/ TestEvaluate \/ TestReturn
  \/ TrainSave \/ TrainReturn

Spec == Init /\ [][Next]_vars

NextTest == CallTest \/ TestLoad \/ TestCompile \/ TestData \/ TestEvaluate \/ TestReturn

SpecTest == InitTest /\ [][NextTest]_vars

\* ------------------------------------------------------------------ claims
IsPrefix(a, b) == Len(a) <= Len(b) /\ a = SubSeq(b, 1, Len(a))

Has(ev) == \E i \in 1..Len(events) : events[i] = ev

CountEv(ev) == Cardinality({i \in 1..Len(events) : events[i] = ev})

Repeat(x, n) == [i \in 1..n |-> x]

RECURSIVE Pow2(_)
Pow2(n) == IF n = 0 THEN 1 ELSE 2 * Pow2(n - 1)

RECURSIVE SumSeq(_)
SumSeq(q) == IF q = <<>> THEN 0 ELSE q[1] + SumSeq(Tail(q))

RECURSIVE WeightedSum(_)
\* The sum over i of q[i] * 2^(i-1); divided by 2^Len(q) it is the sum of q[i] / 2^(k-i+1).
WeightedSum(q) ==
  IF q = <<>> THEN 0
  ELSE WeightedSum(SubSeq(q, 1, Len(q) - 1)) + q[Len(q)] * Pow2(Len(q) - 1)

\* The last epoch (1-based) whose loss is strictly below every earlier loss; 0 for no epochs.
LastImprovement(h) ==
  IF h = <<>> THEN 0
  ELSE CHOOSE i \in 1..Len(h) :
         /\ \A j \in 1..(i - 1) : h[i] < h[j]
         /\ \A k \in (i + 1)..Len(h) : \E j \in 1..(k - 1) : h[j] <= h[k]

\* How many epochs in a row, up to the last one, did not improve on the best loss before them.
NonImprovingTail(h) == Len(h) - LastImprovement(h)

\* The first epoch (1-based) that attains the least validation loss.
BestEpochOf(h) ==
  CHOOSE i \in 1..Len(h) :
    /\ \A j \in 1..Len(h) : h[i] <= h[j]
    /\ \A j \in 1..(i - 1) : h[j] > h[i]

DriverBatches == <<32, 16, 8, 4, 2>>

\* C1: started with batch 32 the driver calls the trainer with batch sizes
\* 32, 16, 8, 4, 2 in that order, never with 1 or less, plots once after each
\* call with that call's history, and when the process has ended it has made
\* all five calls and all five plots.
C1_DriverSweep ==
  /\ IsPrefix(trainCalls, DriverBatches)
  /\ \A i \in 1..Len(trainCalls) : trainCalls[i] > 1
  /\ plotCalls = [i \in 1..Len(plotCalls) |-> i]
  /\ Len(plotCalls) <= Len(trainCalls)
  /\ Len(trainCalls) <= Len(plotCalls) + 1
  /\ pc = "main_plot" => history = [id |-> Run, val_loss |-> train_history]
  /\ pc \in {"done", "crashed"} => (trainCalls = DriverBatches /\ Len(plotCalls) = 5)

\* C2: once the fit loop of a run that began with an empty checkpoint
\* directory has ended after all N epochs without early stopping, the
\* directory holds exactly the N+1 paths of epochs 0..N.
C2_CheckpointCount ==
  (Has("fit_end") /\ ckptAtEntry = {} /\ ~stop_training /\ Len(train_history) = epochs)
    => /\ ckptFiles = {CheckpointPath(e) : e \in 0..epochs}
       /\ Cardinality(ckptFiles) = epochs + 1

C2_Witness ==
  /\ pc = "done" /\ Has("fit_end")
  /\ ckptAtEntry = {} /\ ~stop_training
  /\ epochs >= 3 /\ Len(train_history) = epochs
  /\ Cardinality(ckptFiles) = epochs + 1

\* C3: the evaluator's statistic starts at 0 and after k evaluations with
\* accuracies a_1..a_k equals the sum of a_i / 2^(k-i+1); after one evaluation
\* it is a/2; for equal positive accuracies it differs from their mean; the
\* value returned is the one after `times` evaluations.
C3_RunningStatistic ==
  (entry = "test" /\ pc \in {"te_load", "te_compile", "te_data", "te_eval", "done"})
    => /\ Len(accs) = iter
       /\ iter <= times
       /\ avg_acc.num * Pow2(iter) = avg_acc.den * WeightedSum(accs)
       /\ iter = 0 => avg_acc.num = 0
       /\ iter = 1 => 2 * avg_acc.num = accs[1] * avg_acc.den
       /\ (iter >= 1 /\ accs[1] > 0 /\ \A i \in 1..iter : accs[i] = accs[1])
            => avg_acc.num * iter /= avg_acc.den * SumSeq(accs)
       /\ pc = "done" => iter = times

C3_Witness ==
  /\ entry = "test" /\ pc = "done"
  /\ times >= 2 /\ iter = times
  /\ accs[1] /= accs[2] /\ accs[2] > 0
  /\ avg_acc.num * iter /= avg_acc.den * SumSeq(accs)

\* C4: with no file at the path the loader raises nothing, logs one error per
\* call and returns the default architecture, whose output layer has width 8.
C4_MissingFileFallsBack ==
  fs[ModelPath].kind = "missing"
    => /\ raised = "None" /\ pc /= "crashed"
       /\ model /= "none"
            => (model = "new_model" /\ heap[model].layers = NewModelLayers
                /\ OutputWidth(heap[model].layers) = 8)
       /\ tmodel /= "none"
            => (tmodel = "new_model" /\ OutputWidth(heap[tmodel].layers) = 8)
       /\ Len(errors) = (IF model /= "none" THEN 1 ELSE 0)
                        + (IF tmodel /= "none" THEN 1 ELSE 0)

C4_Witness ==
  /\ fs[ModelPath].kind = "missing"
  /\ pc = "tr_compile" /\ model = "new_model"
  /\ errors = <<"FileNotFoundError">>
  /\ OutputWidth(heap[model].layers) = 8

\* C5: whatever makes the load fail, a missing file or a malformed one, the
\* loader logs an error and falls back to the default architecture, and no
\* exception leaves it.
C5_EveryLoadFailureFallsBack ==
  fs[ModelPath].kind /= "model"
    => /\ raised = "None" /\ pc /= "crashed"
       /\ model /= "none" => (model = "new_model" /\ Len(errors) >= 1)

\* C6: whenever a load has fallen back, in the trainer or in the evaluator, in
\* any driver iteration, the model returned carries the initial parameters.
C6_FallbackIsFresh ==
  /\ (pc = "tr_compile" /\ model = "new_model") => heap[model].w = InitWeights
  /\ (pc = "te_compile" /\ tmodel = "new_model") => heap[tmodel].w = InitWeights

\* What a trainer call with flag t and n fit epochs does, in order.
ExpectedEvents(t, n) ==
  <<"loaded", "compiled", "datasets", "checkpoint0", "fit_begin">>
    \o Repeat("epoch", n) \o <<"fit_end">>
    \o (IF t THEN <<"evaluating", "evaluated">> ELSE <<>>)
    \o <<"saved", "returned">>

\* C7: a trainer run goes through compile, epoch-0 checkpoint, fit epochs,
\* the evaluator (only with the test flag, only after the fit loop), the final
\* save and the return of the history, in that order.
C7_PhaseOrder ==
  /\ IsPrefix(events, ExpectedEvents(test, CountEv("epoch")))
  /\ Has("epoch") => (heap[model].compiled /\ CheckpointPath(0) \in ckptFiles)
  /\ (entry /= "test" /\ pc \in {"te_load", "te_compile", "te_data", "te_eval"})
       => (test /\ Has("fit_end") /\ ~Has("saved"))
  /\ Has("saved")
       => fs[SavePath(model_path)] = ModelFile(heap[model].layers, heap[model].w)
  /\ Has("returned")
       => (Has("saved") /\ history = [id |-> Run, val_loss |-> train_history])
  /\ (pc = "done" /\ entry = "train") => Has("returned")

C7_Witness ==
  /\ entry = "train" /\ pc = "done" /\ test
  /\ CountEv("epoch") >= 2
  /\ events = ExpectedEvents(TRUE, CountEv("epoch"))

\* C8: the fit loop runs at most N epochs; it is stopped exactly when the
\* validation loss has failed to improve on its best value for 3 epochs in a
\* row, so it ends before N epochs only then; and when it was stopped the
\* model holds the weights of the epoch with the best validation loss.
C8_EarlyStopping ==
  /\ Len(train_history) <= epochs
  /\ stop_training <=> NonImprovingTail(train_history) >= 3
  /\ NonImprovingTail(train_history) <= 3
  /\ Has("fit_end") => (Len(train_history) = epochs \/ stop_training)
  /\ (Has("fit_end") /\ stop_training)
       => heap[model].w = Weights("fit", Run, BestEpochOf(train_history))

C8_Witness ==
  /\ Has("fit_end") /\ stop_training
  /\ Len(train_history) < epochs
  /\ NonImprovingTail(train_history) = 3
  /\ heap[model].w = Weights("fit", Run, 1)

\* C9: for every batch size generate_dataset resolves training=False to the
\* "val" subdirectory and training=True to the root; the trainer's two
\* datasets are both read from the root, the evaluator's from "val".
C9_DatasetDirectories ==
  /\ \A bs \in {2, 4, 8, 16, 32, 256} :
       /\ GenerateDataset(bs, FALSE).data_dir = "./dataset-resized/val"
       /\ GenerateDataset(bs, TRUE).data_dir = "./dataset-resized/"
       /\ GenerateDataset(bs, TRUE).batch_size = bs
  /\ Has("datasets")
       => /\ dataset.data_dir = "./dataset-resized/"
          /\ validation_dataset.data_dir = "./dataset-resized/"
          /\ dataset.batch_size = batch_size
          /\ validation_dataset.batch_size = batch_size
  /\ pc = "te_eval"
       => /\ test_dataset.data_dir = "./dataset-resized/val"
          /\ test_dataset.batch_size = 256
  /\ dataset.data_dir /= "./dataset-resized/val"
  /\ validation_dataset.data_dir /= "./dataset-resized/val"

C9_Witness ==
  /\ pc = "te_eval" /\ iter >= 1
  /\ Has("datasets") /\ batch_size = 2
  /\ dataset.data_dir = "./dataset-resized/"
  /\ test_dataset.data_dir = "./dataset-resized/val"

\* C10: when the trainer runs the evaluator, the evaluator's model is the
\* object the fit loop just trained if and only if the trainer's load fell
\* back; after a successful load the evaluator holds the parameters stored at
\* model_path, which the run has not written: the final save comes later and
\* goes to another path.
C10_EvaluatedParameters ==
  (entry /= "test" /\ pc = "te_eval")
    => /\ test
       /\ (tmodel = model) <=> (model = "new_model")
       /\ Len(train_history) >= 1
            => ((heap[tmodel].w.src = "fit" /\ heap[tmodel].w.run = Run)
                  <=> (model = "new_model"))
       /\ model = "new_model" => heap[tmodel].w = heap[model].w
       /\ model /= "new_model"
            => /\ heap[tmodel].w = fs[model_path].w
               /\ fs[model_path] = ModelFile(StoredLayers, DiskWeights)
               /\ heap[tmodel].w /= heap[model].w \/ train_history = <<>>
               /\ SavePath(model_path) /= model_path
               /\ ~Has("saved")

C10_Witness ==
  /\ entry = "main" /\ pc = "te_eval" /\ iter >= 1
  /\ Run = 2
  /\ model = "loaded_tr" /\ tmodel = "loaded_te"
  /\ Len(train_history) >= 2
  /\ heap[model].w.src = "fit"
  /\ heap[tmodel].w = DiskWeights

=============================================================================
